---------------------------- MODULE Spec2Model ----------------------------
(***************************************************************************)
(* Shape inference of the Similarity family of operations                  *)
(* (src/src/ops/similarity_op.cpp).                                        *)
(*                                                                         *)
(* A node of the graph is an operation name, the shapes of its inputs and  *)
(* its three geometry attributes, lists of int64 values.  The shape        *)
(* function registered for the operation is run once on the node's         *)
(* InferenceContext; it either returns a Status, after zero or more        *)
(* set_output calls, or (on a read past the end of an attribute vector)    *)
(* does whatever the build makes of it.                                    *)
(***************************************************************************)
EXTENDS Integers, Sequences, FiniteSets, TLC

VARIABLES
    op,       \* name of the registered operation of the node
    inputs,   \* shapes of the node's inputs, input(i) is inputs[i+1]
    attrs,    \* the node's attributes strides, blocks, padding, as int32 values
    pc,       \* "ready": shape function not yet run, "done": it returned,
              \* "crashed": it did not return
    wide,     \* per attribute, the positions of the values outside int32
    status,   \* the Status the shape function returned
    sets,     \* the set_output calls made, in order
    reads     \* the attribute elements the shape function read

vars == <<op, inputs, attrs, wide, pc, status, sets, reads>>

-----------------------------------------------------------------------------
(* Bounds of the model *)

MaxDim == 2       \* known spatial dimension sizes are 0..MaxDim
MaxStride == 2    \* stride values are 0..MaxStride
MaxPad == 1       \* padding values are 0..MaxPad
MaxChan == 2      \* known batch and channel dimension sizes are 1..MaxChan
MaxAttrLen == 3   \* attribute lists have 0..MaxAttrLen elements

-----------------------------------------------------------------------------
(* Shapes and dimensions of the inference context *)

\* InferenceContext::kUnknownDim
UNKNOWN == -1

\* a shape of known rank
Shape(ds) == [rankKnown |-> TRUE, dims |-> ds]

\* InferenceContext::UnknownShape()
UnknownShape == [rankKnown |-> FALSE, dims |-> <<>>]

\* InferenceContext::UnknownShapeOfRank(rank)
UnknownShapeOfRank(rank) == Shape([i \in 1..rank |-> UNKNOWN])

\* Status::OK()
OK == [code |-> "OK", msg |-> ""]

\* errors::InvalidArgument(msg)
InvalidArgument(m) == [code |-> "INVALID_ARGUMENT", msg |-> m]

\* no Status: the shape function has not returned
NoStatus == [code |-> "NONE", msg |-> ""]

RankMsg == "Shape must be rank 4"
StrideSizeMsg == "Similarity requires the stride attribute to contain 2 values"
MergeMsg == "Dimensions must be equal"
StrideMsg == "Stride must be > 0"
NegativeMsg == "Negative dimension size"
StridesRangeMsg == "Attr strides has value out of range for an int32"
BlocksRangeMsg == "Attr blocks has value out of range for an int32"
PaddingRangeMsg == "Attr padding has value out of range for an int32"

\* the message of the lookup of an attribute with a value outside int32
RangeMsg(name) ==
    IF name = "strides" THEN StridesRangeMsg
    ELSE IF name = "blocks" THEN BlocksRangeMsg
    ELSE PaddingRangeMsg

\* c->input(i)
Input(c, i) == c.inputs[i + 1]

\* c->WithRank(shape, rank, &out)
WithRank(shape, rank) ==
    IF ~shape.rankKnown
      THEN [status |-> OK, shape |-> UnknownShapeOfRank(rank)]
      ELSE IF Len(shape.dims) = rank
             THEN [status |-> OK, shape |-> shape]
             ELSE [status |-> InvalidArgument(RankMsg), shape |-> shape]

\* c->Dim(shape, i)
Dim(shape, i) == shape.dims[i + 1]

\* c->Merge(d0, d1, &out)
Merge(d0, d1) ==
    IF d0 = UNKNOWN THEN [status |-> OK, dim |-> d1]
    ELSE IF d1 = UNKNOWN THEN [status |-> OK, dim |-> d0]
    ELSE IF d0 = d1 THEN [status |-> OK, dim |-> d0]
    ELSE [status |-> InvalidArgument(MergeMsg), dim |-> UNKNOWN]

\* c->MakeShape({...})
MakeShape(ds) == Shape(ds)

\* c->GetAttr(name, &vec) into a std::vector<int32>: the attribute is
\* registered with a default, so the node always carries it; its type is
\* list(int), whose values are int64, and the lookup fails when one of them
\* is outside int32 (c.wide[name] holds the positions of these values, and
\* c.attrs[name] what the values are as int32)
GetAttr(c, name) ==
    IF c.wide[name] # {}
      THEN [status |-> InvalidArgument(RangeMsg(name)), value |-> <<>>]
      ELSE [status |-> OK, value |-> c.attrs[name]]

\* vec[k] of a std::vector<int32>: the element when k < vec.size(), otherwise
\* whatever the out-of-bounds read yields
At(vec, k, garbage) == IF k < Len(vec) THEN vec[k + 1] ELSE garbage

\* the record of one read of an attribute element and the value it yielded (a
\* read that traps yields none)
Read(name, vec, k, garbage) ==
    [attr |-> name, idx |-> k, inBounds |-> k < Len(vec), value |-> At(vec, k, garbage)]

\* simnets_tf::GetSimnetsOutputSizeFromDims(c, input_size, filter_size,
\*                                          stride, padding, round_down, &out)
GetSimnetsOutputSizeFromDims(input_size, filter_size, stride, padding, round_down) ==
    IF stride <= 0
      THEN [status |-> InvalidArgument(StrideMsg), dim |-> UNKNOWN]
    ELSE IF input_size = UNKNOWN \/ filter_size = UNKNOWN
      THEN [status |-> OK, dim |-> UNKNOWN]
    ELSE LET extent == input_size + 2 * padding - filter_size IN
         IF extent < 0
           THEN [status |-> InvalidArgument(NegativeMsg), dim |-> UNKNOWN]
           ELSE [status |-> OK,
                 dim |-> IF round_down
                           THEN (extent \div stride) + 1
                           ELSE ((extent + stride - 1) \div stride) + 1]

-----------------------------------------------------------------------------
(* The shape functions *)

\* what a run of a shape function leaves behind
Returned(s, setCalls, rd) ==
    [returned |-> TRUE, status |-> s, sets |-> setCalls, reads |-> rd]

\* a run that did not return
Crashed(rd) ==
    [returned |-> FALSE, status |-> NoStatus, sets |-> <<>>, reads |-> rd]

\* c->set_output(idx, shape)
SetOutput(idx, shape) == [idx |-> idx, shape |-> shape]

\* RankStage with input 0 checked twice and input 1 never
RankStageInputTwice(c) ==
    LET r0 == WithRank(Input(c, 0), 4) IN
    IF r0.status # OK
      THEN [status |-> r0.status, input_shape |-> r0.shape, template_shape |-> r0.shape]
      ELSE LET r1 == WithRank(Input(c, 0), 4) IN
           [status |-> r1.status, input_shape |-> r0.shape, template_shape |-> r1.shape]

\* lines 10-13: both inputs must be of rank 4
RankStage(c) ==
    LET r0 == WithRank(Input(c, 0), 4) IN
    IF r0.status # OK
      THEN [status |-> r0.status, input_shape |-> r0.shape, template_shape |-> r0.shape]
      ELSE LET r1 == WithRank(Input(c, 1), 4) IN
           [status |-> r1.status, input_shape |-> r0.shape, template_shape |-> r1.shape]

\* AttrStage with the arity check written strides.size() < 2
AttrStageAtLeastTwo(c) ==
    LET s == GetAttr(c, "strides")
        b == GetAttr(c, "blocks")
        p == GetAttr(c, "padding")
        st == IF s.status # OK THEN s.status
              ELSE IF b.status # OK THEN b.status
              ELSE IF p.status # OK THEN p.status
              ELSE IF Len(s.value) < 2 THEN InvalidArgument(StrideSizeMsg)
              ELSE OK
    IN [status |-> st, strides |-> s.value, blocks |-> b.value, padding |-> p.value]

\* AttrStage with the arity of blocks checked as that of strides is
AttrStageBlocksChecked(c) ==
    LET s == GetAttr(c, "strides")
        b == GetAttr(c, "blocks")
        p == GetAttr(c, "padding")
        st == IF s.status # OK THEN s.status
              ELSE IF b.status # OK THEN b.status
              ELSE IF p.status # OK THEN p.status
              ELSE IF Len(s.value) # 2 \/ Len(b.value) # 2
                THEN InvalidArgument(StrideSizeMsg)
              ELSE OK
    IN [status |-> st, strides |-> s.value, blocks |-> b.value, padding |-> p.value]

\* lines 15-26: the three attribute lookups, each returning its error, then
\* the arity check of strides
AttrStage(c) ==
    LET s == GetAttr(c, "strides")
        b == GetAttr(c, "blocks")
        p == GetAttr(c, "padding")
        st == IF s.status # OK THEN s.status
              ELSE IF b.status # OK THEN b.status
              ELSE IF p.status # OK THEN p.status
              ELSE IF Len(s.value) # 2 THEN InvalidArgument(StrideSizeMsg)
              ELSE OK
    IN [status |-> st, strides |-> s.value, blocks |-> b.value, padding |-> p.value]

\* lines 28-29: stride_rows = strides[0], stride_cols = strides[1]
StrideReads(strides) == {Read("strides", strides, 0, 0), Read("strides", strides, 1, 0)}

\* MergeStage on dimension 0 of both shapes
MergeStageDimZero(input_shape, template_shape) ==
    Merge(Dim(input_shape, 0), Dim(template_shape, 0)).status

\* lines 38-40: the in-channel dimensions of input and templates must merge
MergeStage(input_shape, template_shape) ==
    Merge(Dim(input_shape, 1), Dim(template_shape, 1)).status

\* InRowsDim of a channels-last layout
InRowsDimChannelsLast(input_shape) == Dim(input_shape, 1)

\* line 32
InRowsDim(input_shape) == Dim(input_shape, 2)

\* line 33
InColsDim(input_shape) == Dim(input_shape, 3)

\* line 34
FilterRowsDim(template_shape) == Dim(template_shape, 2)

\* line 35
FilterColsDim(template_shape) == Dim(template_shape, 3)

\* OutputShape with the depth taken from the input's channels
OutputShapeInputDepth(input_shape, template_shape, output_rows, output_cols) ==
    MakeShape(<<Dim(input_shape, 0), Dim(input_shape, 1), output_rows, output_cols>>)

\* lines 31, 36, 48-49: the output shape
OutputShape(input_shape, template_shape, output_rows, output_cols) ==
    MakeShape(<<Dim(input_shape, 0), Dim(template_shape, 0), output_rows, output_cols>>)

\* SizeStage with the output set as soon as the rows are known
SizeStageEarlySet(input_shape, template_shape, stride_rows, stride_cols, padding, rd, ub) ==
    LET trap0 == rd \cup {Read("padding", padding, 0, 0)}
        rd0 == rd \cup {Read("padding", padding, 0, ub.g0)}
        trap1 == rd0 \cup {Read("padding", padding, 1, 0)}
        rd1 == rd0 \cup {Read("padding", padding, 1, ub.g1)}
        rows == GetSimnetsOutputSizeFromDims(Dim(input_shape, 2),
                    Dim(template_shape, 2), stride_rows,
                    At(padding, 0, ub.g0), TRUE)
        cols == GetSimnetsOutputSizeFromDims(Dim(input_shape, 3),
                    Dim(template_shape, 3), stride_cols,
                    At(padding, 1, ub.g1), TRUE)
        early == SetOutput(0, MakeShape(<<Dim(input_shape, 0), Dim(template_shape, 0),
                                          rows.dim, UNKNOWN>>))
        final == SetOutput(0, MakeShape(<<Dim(input_shape, 0), Dim(template_shape, 0),
                                          rows.dim, cols.dim>>))
    IN IF Len(padding) < 1 /\ ub.crashAt = 0 THEN Crashed(trap0)
       ELSE IF rows.status # OK THEN Returned(rows.status, <<>>, rd0)
       ELSE IF Len(padding) < 2 /\ ub.crashAt = 1 THEN Crashed(trap1)
       ELSE IF cols.status # OK THEN Returned(cols.status, <<early>>, rd1)
       ELSE Returned(OK, <<early, final>>, rd1)

\* lines 42-52: rows, then columns, then the one set_output.  padding[0] is
\* read for the rows call and padding[1] only when the rows call succeeded; a
\* read past the end of padding traps (ub.crashAt names the read) or yields
\* ub.g0 / ub.g1.
SizeStage(input_shape, template_shape, stride_rows, stride_cols, padding, rd, ub) ==
    LET trap0 == rd \cup {Read("padding", padding, 0, 0)}
        rd0 == rd \cup {Read("padding", padding, 0, ub.g0)}
        trap1 == rd0 \cup {Read("padding", padding, 1, 0)}
        rd1 == rd0 \cup {Read("padding", padding, 1, ub.g1)}
        rows == GetSimnetsOutputSizeFromDims(InRowsDim(input_shape),
                    FilterRowsDim(template_shape), stride_rows,
                    At(padding, 0, ub.g0), TRUE)
        cols == GetSimnetsOutputSizeFromDims(InColsDim(input_shape),
                    FilterColsDim(template_shape), stride_cols,
                    At(padding, 1, ub.g1), TRUE)
    IN IF Len(padding) < 1 /\ ub.crashAt = 0 THEN Crashed(trap0)
       ELSE IF rows.status # OK THEN Returned(rows.status, <<>>, rd0)
       ELSE IF Len(padding) < 2 /\ ub.crashAt = 1 THEN Crashed(trap1)
       ELSE IF cols.status # OK THEN Returned(cols.status, <<>>, rd1)
       ELSE Returned(OK,
                <<SetOutput(0, OutputShape(input_shape, template_shape,
                                           rows.dim, cols.dim))>>,
                rd1)

\* lines 8-53
SimilarityShape(c, ub) ==
    LET r == RankStage(c) IN
    IF r.status # OK THEN Returned(r.status, <<>>, {}) ELSE
    LET a == AttrStage(c) IN
    IF a.status # OK THEN Returned(a.status, <<>>, {}) ELSE
    LET rd == StrideReads(a.strides)
        m == MergeStage(r.input_shape, r.template_shape) IN
    IF m # OK THEN Returned(m, <<>>, rd) ELSE
    SizeStage(r.input_shape, r.template_shape, a.strides[1], a.strides[2],
              a.padding, rd, ub)

\* SimilarityParametersGradShape with both outputs taken from input 1
SimilarityParametersGradShapeTemplatesTwice(c) ==
    Returned(OK, <<SetOutput(0, Input(c, 1)), SetOutput(1, Input(c, 1))>>, {})

\* lines 55-59
SimilarityParametersGradShape(c) ==
    Returned(OK, <<SetOutput(0, Input(c, 1)), SetOutput(1, Input(c, 2))>>, {})

\* the output given the shape of input 3, the upstream gradient
ShapeOfUpstreamGradient(c) ==
    Returned(OK, <<SetOutput(0, Input(c, 3))>>, {})

\* line 156: shape_inference::UnchangedShape
UnchangedShape(c) ==
    Returned(OK, <<SetOutput(0, Input(c, 0))>>, {})

-----------------------------------------------------------------------------
(* Registered operations, lines 61-174 *)

\* lines 61, 125: the operations registered with SetShapeFn(SimilarityShape)
ForwardOps == {"Similarity", "SimilarityRef"}

\* lines 141, 158: the gradient operations
GradOps == {"SimilarityInputGrad", "SimilarityParametersGrad"}

\* lines 68, 132, 149, 167
DefaultBlocks == <<3, 3>>

\* lines 69, 133, 150, 168
DefaultStrides == <<2, 2>>

\* lines 70, 134, 151, 169
DefaultPadding == <<0, 0>>

-----------------------------------------------------------------------------
(* The nodes the shape functions are run on *)

Dims == {UNKNOWN} \cup (0..MaxDim)
ChanDims == {UNKNOWN} \cup (1..MaxChan)
Strides == 0..MaxStride
Pads == 0..MaxPad

\* the lists of at most MaxAttrLen elements of vals
Lists(vals) == UNION {[1..n -> vals] : n \in 0..MaxAttrLen}

Attrs(s, b, p) == [strides |-> s, blocks |-> b, padding |-> p]

\* the positions of a list
Positions(list) == 0..(Len(list) - 1)

\* every value of every attribute within int32
NoWide == [strides |-> {}, blocks |-> {}, padding |-> {}]

\* shapes of every kind of rank: unknown, 3, 4 and 5
RankShapes ==
    {UnknownShape, Shape(<<2, 2, 2>>), Shape(<<1, 1, 2, 2>>),
     Shape(<<2, 1, 1, 1>>), Shape(<<1, 1, 2, 2, 2>>)}

\* the node under construction, with the values of a outside int32 at the
\* positions w
IsWideNode(o, ins, a, w) == op = o /\ inputs = ins /\ attrs = a /\ wide = w

\* the node under construction, every attribute value within int32
IsNode(o, ins, a) == IsWideNode(o, ins, a, NoWide)

\* rank-4 input and templates with every spatial size, stride and padding,
\* rows and columns independent
GeometryNodes ==
    \E o \in ForwardOps, h \in Dims, w \in Dims, bh \in Dims, bw \in Dims,
       s0 \in Strides, s1 \in Strides, p0 \in Pads, p1 \in Pads :
        IsNode(o, <<Shape(<<2, 1, h, w>>), Shape(<<1, 1, bh, bw>>),
                    Shape(<<1, 1, bh, bw>>)>>,
               Attrs(<<s0, s1>>, DefaultBlocks, <<p0, p1>>))

\* rank-4 input and templates with every batch, out-channel and in-channel
\* size, on square images and windows
ChannelNodes ==
    \E o \in ForwardOps, n \in ChanDims, ci \in ChanDims, co \in ChanDims,
       ct \in ChanDims, h \in Dims, b \in Dims, s \in Strides, p \in Pads :
        IsNode(o, <<Shape(<<n, ci, h, h>>), Shape(<<co, ct, b, b>>),
                    Shape(<<co, ct, b, b>>)>>,
               Attrs(<<s, s>>, DefaultBlocks, <<p, p>>))

\* inputs of every rank, with strides of every length
RankNodes ==
    \E o \in ForwardOps, i \in RankShapes, t \in RankShapes, w \in RankShapes,
       s \in Lists({1, 2}), b \in {DefaultBlocks, <<>>}, p \in {DefaultPadding, <<1, 1, 1>>} :
        IsNode(o, <<i, t, w>>, Attrs(s, b, p))

\* attribute lists of every length on fixed rank-4 inputs
ArityNodes ==
    \E o \in ForwardOps, s \in Lists({1, 2}), b \in Lists({1, 3}), p \in Lists({0, 1}) :
        IsNode(o, <<Shape(<<1, 1, 2, 2>>), Shape(<<2, 1, 1, 1>>),
                    Shape(<<2, 1, 1, 1>>)>>,
               Attrs(s, b, p))

\* attribute lists with values outside int32 at every set of positions, on
\* inputs that pass the rank checks, that fail them, and whose in-channel
\* sizes differ
RangeNodes ==
    \E o \in ForwardOps,
       i \in {Shape(<<1, 1, 2, 2>>), Shape(<<2, 2, 2>>)},
       t \in {Shape(<<2, 1, 1, 1>>), Shape(<<2, 2, 2, 2>>)},
       s \in Lists({2}), b \in {<<3>>, DefaultBlocks}, p \in {<<0>>, DefaultPadding} :
        \E ws \in SUBSET Positions(s), wb \in SUBSET Positions(b),
           wp \in SUBSET Positions(p) :
            IsWideNode(o, <<i, t, t>>, Attrs(s, b, p),
                       [strides |-> ws, blocks |-> wb, padding |-> wp])

\* the gradient operations, inputs of every rank
GradNodes ==
    \E o \in GradOps, i \in RankShapes, t \in RankShapes, w \in RankShapes,
       g \in RankShapes, s \in {DefaultStrides, <<>>, <<0, 1>>},
       b \in {DefaultBlocks, <<1>>}, p \in {DefaultPadding, <<1, 1, 1>>} :
        IsNode(o, <<i, t, w, g>>, Attrs(s, b, p))

\* the gradient operations on attribute lists with values outside int32
GradRangeNodes ==
    \E o \in GradOps, g \in RankShapes,
       ws \in SUBSET Positions(DefaultStrides), wb \in SUBSET Positions(DefaultBlocks),
       wp \in SUBSET Positions(DefaultPadding) :
        IsWideNode(o, <<Shape(<<1, 1, 2, 2>>), Shape(<<2, 1, 1, 1>>), Shape(<<2, 2, 2>>), g>>,
                   Attrs(DefaultStrides, DefaultBlocks, DefaultPadding),
                   [strides |-> ws, blocks |-> wb, padding |-> wp])

-----------------------------------------------------------------------------
(* Reads past the end of padding *)

\* the range of int32, the element type of the attribute vectors
Int32Max == 2147483647
Int32Min == -Int32Max - 1

\* the values an out-of-bounds read of an int32 vector yields: any int32 (the
\* bytes that lie behind the vector's storage)
Garbage == Int32Min..Int32Max

\* the outcomes of the out-of-bounds reads of a run on context c, the values
\* read drawn from values: each read of padding[k] with k >= padding.size()
\* traps (crashAt = k) or yields a value; the reads within bounds have one
\* outcome
UBOutcomes(c, values) ==
    LET n == Len(c.attrs.padding)
        G0 == IF n < 1 THEN values ELSE {0}
        G1 == IF n < 2 THEN values ELSE {0}
    IN [crashAt : {-1}, g0 : G0, g1 : G1]
         \cup (IF n < 1 THEN {[crashAt |-> 0, g0 |-> 0, g1 |-> 0]} ELSE {})
         \cup (IF n < 2 THEN [crashAt : {1}, g0 : G0, g1 : {0}] ELSE {})

\* every outcome the out-of-bounds reads of a run on c can have;
\* SimilarityShape(c, ub) is the run under the outcome ub
UBChoices(c) == UBOutcomes(c, Garbage)

\* in the state of a finished run, a number that came out of a read past the
\* end of padding: the value read, and an output dimension computed from it.
\* It stands for every value the number can have; it is no dimension (a
\* dimension is UNKNOWN or at least 0) and is told from a value read within
\* bounds by the inBounds field of the read.
Indeterminate == -2

\* the state a run leaves, with the numbers that came out of a read past the
\* end of padding replaced by Indeterminate: output dimension 2 derives from
\* padding[0] and dimension 3 from padding[1], unless the dimension is UNKNOWN
\* (GetSimnetsOutputSizeFromDims then does not look at the padding)
Abstract(c, r) ==
    LET n == Len(c.attrs.padding)
        AbsDim(d, k) == IF k >= n /\ d # UNKNOWN THEN Indeterminate ELSE d
        AbsShape(s) ==
            IF s.rankKnown /\ Len(s.dims) = 4
              THEN Shape(<<s.dims[1], s.dims[2], AbsDim(s.dims[3], 0), AbsDim(s.dims[4], 1)>>)
              ELSE s
        AbsRead(x) == IF x.inBounds THEN x ELSE [x EXCEPT !.value = Indeterminate]
    IN [r EXCEPT !.sets = [i \in 1..Len(r.sets) |->
                              [idx |-> r.sets[i].idx, shape |-> AbsShape(r.sets[i].shape)]],
                 !.reads = {AbsRead(x) : x \in r.reads}]

\* one value of Garbage for each way a run can go on: with a value far below
\* zero the extent in + 2*padding - filter is negative, with a value far above
\* zero it is not, and 0 is what a list with the elements present would hold.
\* Abstract maps the run under any value of Garbage to the run under one of
\* these.
GarbageRepresentatives == {-(Int32Max \div 4), 0, Int32Max \div 4}

\* the outcomes of the out-of-bounds reads the state machine draws from
UBRepresentatives(c) == UBOutcomes(c, GarbageRepresentatives)

\* the states a run of SimilarityShape on c can leave: one for each outcome
\* of UBChoices(c)
SimilarityShapeRuns(c) ==
    {Abstract(c, SimilarityShape(c, ub)) : ub \in UBRepresentatives(c)}

\* values of Garbage the representatives are compared against: the small
\* values of either sign, the upper halves of heap addresses, and values of
\* large magnitude
GarbageSample ==
    (-4..4) \cup {5, 33, 21871, 21961, 22056, 22060, 32767, -32768, 65536,
                  -(Int32Max \div 4) - 1, (Int32Max \div 4) + 1}

-----------------------------------------------------------------------------
(* The state machine *)

\* the InferenceContext of the node
Ctx == [inputs |-> inputs, attrs |-> attrs, wide |-> wide]

Init ==
    /\ \/ GeometryNodes \/ ChannelNodes \/ RankNodes \/ ArityNodes \/ RangeNodes
       \/ GradNodes \/ GradRangeNodes
    /\ pc = "ready"
    /\ status = NoStatus
    /\ sets = <<>>
    /\ reads = {}

\* the state a run of a shape function leaves
Finish(r) ==
    /\ pc' = IF r.returned THEN "done" ELSE "crashed"
    /\ status' = r.status
    /\ sets' = r.sets
    /\ reads' = r.reads
    /\ UNCHANGED <<op, inputs, attrs, wide>>

\* lines 61-75
RunSimilarity ==
    /\ pc = "ready"
    /\ op = "Similarity"
    /\ \E r \in SimilarityShapeRuns(Ctx) : Finish(r)

\* lines 125-139
RunSimilarityRef ==
    /\ pc = "ready"
    /\ op = "SimilarityRef"
    /\ \E r \in SimilarityShapeRuns(Ctx) : Finish(r)

\* lines 141-156
RunSimilarityInputGrad ==
    /\ pc = "ready"
    /\ op = "SimilarityInputGrad"
    /\ Finish(UnchangedShape(Ctx))

\* lines 158-174
RunSimilarityParametersGrad ==
    /\ pc = "ready"
    /\ op = "SimilarityParametersGrad"
    /\ Finish(SimilarityParametersGradShape(Ctx))

Next ==
    \/ RunSimilarity
    \/ RunSimilarityRef
    \/ RunSimilarityInputGrad
    \/ RunSimilarityParametersGrad

Spec == Init /\ [][Next]_vars

-----------------------------------------------------------------------------
(* Vocabulary of the properties *)

Forward == op \in ForwardOps
Ran == pc # "ready"
Done == pc = "done"

IsRank4(shape) == shape.rankKnown /\ Len(shape.dims) = 4
KnownRankNot4(shape) == shape.rankKnown /\ Len(shape.dims) # 4
BothRank4 == IsRank4(inputs[1]) /\ IsRank4(inputs[2])

\* every value of strides, blocks and padding is within int32, so that the
\* three lookups succeed
LookupsSucceed == wide = NoWide

\* dimension i of a node input, unknown when the rank is
DimOf(shape, i) == IF shape.rankKnown THEN shape.dims[i + 1] ELSE UNKNOWN

Known(d) == d # UNKNOWN
Mismatch(d0, d1) == Known(d0) /\ Known(d1) /\ d0 # d1

\* output idx has been set / the shape it was last set to
OutputIsSet(idx) == \E k \in 1..Len(sets) : sets[k].idx = idx
Output(idx) ==
    sets[CHOOSE k \in 1..Len(sets) :
            /\ sets[k].idx = idx
            /\ \A j \in (k + 1)..Len(sets) : sets[j].idx # idx].shape

StridesRead == {r \in reads : r.attr = "strides"}
OutOfBoundsReads == {r \in reads : ~r.inBounds}

\* what an observer of a run sees of it
Outcome(r) == <<r.returned, r.status, r.sets>>
Observed == <<pc = "done", status, sets>>

\* the values the reads of padding[k] yielded
PaddingReads(k) == {r \in reads : r.attr = "padding" /\ r.idx = k}
PaddingValues(k) == {r.value : r \in PaddingReads(k)}

\* the size GetSimnetsOutputSizeFromDims gives on one axis (2: rows, 3:
\* columns) from the element of padding for that axis; when the list has no
\* such element, UNKNOWN where either size is unknown and otherwise a number
\* computed from the value read past the end
SizeOf(axis) ==
    LET in == DimOf(inputs[1], axis)
        filter == DimOf(inputs[2], axis)
    IN IF axis - 2 < Len(attrs.padding)
         THEN GetSimnetsOutputSizeFromDims(in, filter, attrs.strides[axis - 1],
                                           attrs.padding[axis - 1], TRUE).dim
         ELSE IF in = UNKNOWN \/ filter = UNKNOWN THEN UNKNOWN ELSE Indeterminate

\* the run under every sampled value of Garbage is, up to the numbers read
\* past the end, the run under a representative
RepresentativesCover ==
    pc = "ready" =>
        \A ub \in UBOutcomes(Ctx, GarbageSample) :
            Abstract(Ctx, SimilarityShape(Ctx, ub)) \in SimilarityShapeRuns(Ctx)

-----------------------------------------------------------------------------
(* C1 *)

\* C1: whenever SimilarityShape succeeds, output 0 is the one output set, of
\* rank 4, [input dim 0, templates dim 0, output_rows, output_cols], with
\* output_rows computed from (input dim 2, templates dim 2, strides[0],
\* padding[0]) and output_cols from (input dim 3, templates dim 3, strides[1],
\* padding[1]); nothing else of the node (weights, input dim 1) enters.
\* padding[k] is the value the read of padding[k] yielded: the element when
\* the list has one, and otherwise whatever lies behind the list.
C1_OutputShape ==
    (Forward /\ Done /\ status = OK) =>
        /\ Len(sets) = 1
        /\ sets[1].idx = 0
        /\ Output(0).rankKnown
        /\ Len(Output(0).dims) = 4
        /\ \A k \in {0, 1} :
              PaddingValues(k) = IF k < Len(attrs.padding)
                                   THEN {attrs.padding[k + 1]}
                                   ELSE {Indeterminate}
        /\ Output(0).dims = <<DimOf(inputs[1], 0), DimOf(inputs[2], 0),
                             SizeOf(2), SizeOf(3)>>

\* a successful run whose four output dimensions are known, with batch and
\* depth different and rows and columns different
C1_Witness ==
    /\ Forward /\ Done /\ status = OK
    /\ \A i \in 1..4 : Known(Output(0).dims[i])
    /\ Output(0).dims[1] # Output(0).dims[2]
    /\ Output(0).dims[3] # Output(0).dims[4]
    /\ DimOf(inputs[1], 1) # DimOf(inputs[2], 0)

-----------------------------------------------------------------------------
(* C2 *)

\* C2: for rank-4 input and templates, a strides list of any length other
\* than 2 makes SimilarityShape return an InvalidArgument without having read
\* an element of strides: that of the stride check when the three lookups
\* succeed, and otherwise that of the first lookup that fails; with exactly 2
\* values the error of the stride check is never returned.
C2_StridesArity ==
    (Forward /\ Ran /\ BothRank4) =>
        /\ Len(attrs.strides) # 2 =>
              /\ Done
              /\ status.code = "INVALID_ARGUMENT"
              /\ LookupsSucceed => status = InvalidArgument(StrideSizeMsg)
              /\ StridesRead = {}
        /\ Len(attrs.strides) = 2 => status.msg # StrideSizeMsg

\* a run rejected for a strides list of 3 values
C2_Witness ==
    /\ Forward /\ Done /\ BothRank4
    /\ Len(attrs.strides) = 3
    /\ status = InvalidArgument(StrideSizeMsg)
    /\ StridesRead = {}

-----------------------------------------------------------------------------
(* C3 *)

\* C3: when input or templates has a known rank other than 4, SimilarityShape
\* returns the rank error, whatever the attributes are (also when strides
\* has the wrong number of values).
C3_RankChecked ==
    (Forward /\ Ran /\ (KnownRankNot4(inputs[1]) \/ KnownRankNot4(inputs[2]))) =>
        /\ Done
        /\ status = InvalidArgument(RankMsg)

\* the rank error for templates of rank 5 on a node whose strides list is
\* empty as well
C3_Witness ==
    /\ Forward /\ Done
    /\ IsRank4(inputs[1])
    /\ inputs[2].rankKnown /\ Len(inputs[2].dims) = 5
    /\ attrs.strides = <<>>
    /\ status = InvalidArgument(RankMsg)

-----------------------------------------------------------------------------
(* C4 *)

\* C4 as stated: for rank-4 input and templates and 2 strides, an in-channel
\* mismatch (dim 1 of both known and unequal) is rejected, a batch mismatch
\* (dim 0 of both known and unequal) is rejected likewise, and with equal or
\* unknown in-channel dimensions the merge raises no error.
C4_AsStated ==
    (Forward /\ Ran /\ BothRank4 /\ Len(attrs.strides) = 2) =>
        /\ Mismatch(DimOf(inputs[1], 1), DimOf(inputs[2], 1)) =>
              Done /\ status # OK
        /\ Mismatch(DimOf(inputs[1], 0), DimOf(inputs[2], 0)) =>
              Done /\ status # OK
        /\ ~Mismatch(DimOf(inputs[1], 1), DimOf(inputs[2], 1)) =>
              status.msg # MergeMsg

\* C4, amended: for rank-4 input and templates and 2 strides, SimilarityShape
\* returns an error when the in-channel dimensions (dim 1) of input and
\* templates are both known and unequal (the merge error when the three
\* lookups succeed, and otherwise that of the first lookup that fails), and
\* never the merge error when they are equal or one is unknown; dim 0 of
\* input (batch) and dim 0 of templates (out_channels) are not compared.
C4_InChannelMerge ==
    (Forward /\ Ran /\ BothRank4 /\ Len(attrs.strides) = 2) =>
        /\ Mismatch(DimOf(inputs[1], 1), DimOf(inputs[2], 1)) =>
              /\ Done
              /\ status # OK
              /\ LookupsSucceed => status = InvalidArgument(MergeMsg)
        /\ ~Mismatch(DimOf(inputs[1], 1), DimOf(inputs[2], 1)) =>
              status.msg # MergeMsg

\* a run rejected for in-channel sizes 1 and 2 on a node whose dim 0 sizes
\* agree
C4_Witness ==
    /\ Forward /\ Done /\ BothRank4
    /\ DimOf(inputs[1], 1) = 1 /\ DimOf(inputs[2], 1) = 2
    /\ DimOf(inputs[1], 0) = DimOf(inputs[2], 0)
    /\ status = InvalidArgument(MergeMsg)

-----------------------------------------------------------------------------
(* C5 *)

\* C5: shape inference of SimilarityParametersGrad always returns OK with
\* output 0 the shape of input 1 (templates) and output 1 the shape of input 2
\* (weights), whatever input 0, input 3 and the attributes are.
C5_ParametersGradShapes ==
    (op = "SimilarityParametersGrad" /\ Ran) =>
        /\ Done
        /\ status = OK
        /\ OutputIsSet(0) /\ Output(0) = inputs[2]
        /\ OutputIsSet(1) /\ Output(1) = inputs[3]

\* a run on four inputs of four different shapes, with an empty strides list
C5_Witness ==
    /\ op = "SimilarityParametersGrad" /\ Done
    /\ Cardinality({inputs[1], inputs[2], inputs[3], inputs[4]}) = 4
    /\ attrs.strides = <<>>
    /\ Output(0) = inputs[2] /\ Output(1) = inputs[3]

-----------------------------------------------------------------------------
(* C6 *)

\* C6: shape inference of SimilarityInputGrad sets its one output to the
\* shape of input 0, whatever the other inputs and the attributes are.
C6_InputGradShape ==
    (op = "SimilarityInputGrad" /\ Ran) =>
        /\ Done
        /\ status = OK
        /\ Len(sets) = 1
        /\ OutputIsSet(0) /\ Output(0) = inputs[1]

\* a run on four inputs of four different shapes, input 0 of rank 4
C6_Witness ==
    /\ op = "SimilarityInputGrad" /\ Done
    /\ Cardinality({inputs[1], inputs[2], inputs[3], inputs[4]}) = 4
    /\ IsRank4(inputs[1])
    /\ Output(0) = inputs[1]

-----------------------------------------------------------------------------
(* C7 *)

\* C7: for rank-4 input and templates, a padding or blocks list that does not
\* hold exactly 2 values makes SimilarityShape return InvalidArgument, with no
\* output set and no read past the end of padding.
C7_PaddingBlocksArity ==
    (Forward /\ Ran /\ BothRank4
        /\ (Len(attrs.padding) # 2 \/ Len(attrs.blocks) # 2)) =>
        /\ Done
        /\ status.code = "INVALID_ARGUMENT"
        /\ sets = <<>>
        /\ OutOfBoundsReads = {}

-----------------------------------------------------------------------------
(* C8 *)

\* C8: a run of SimilarityShape that does not return OK has set no output; a
\* run that returns OK has called set_output exactly once, for output 0.
C8_NoPartialResult ==
    (Forward /\ Ran) =>
        /\ status # OK => sets = <<>>
        /\ status = OK => Len(sets) = 1 /\ sets[1].idx = 0

\* the paths on which SimilarityShape returns an error
RankPath == Forward /\ Done /\ status = InvalidArgument(RankMsg)
LookupPath ==
    /\ Forward /\ Done
    /\ status.msg \in {StridesRangeMsg, BlocksRangeMsg, PaddingRangeMsg}
ArityPath == Forward /\ Done /\ status = InvalidArgument(StrideSizeMsg)
MergePath == Forward /\ Done /\ status = InvalidArgument(MergeMsg)
RowsPath ==
    /\ Forward /\ Done /\ status.msg \in {StrideMsg, NegativeMsg}
    /\ PaddingReads(1) = {}
ColsPath ==
    /\ Forward /\ Done /\ status.msg \in {StrideMsg, NegativeMsg}
    /\ PaddingReads(1) # {}

\* a run whose lookups of strides and blocks succeeded and whose lookup of
\* padding failed, on a node that would otherwise have got its output
C8_Witness ==
    /\ LookupPath /\ BothRank4
    /\ wide.strides = {} /\ wide.blocks = {} /\ wide.padding # {}
    /\ Len(attrs.strides) = 2 /\ Len(attrs.padding) = 2
    /\ ~Mismatch(DimOf(inputs[1], 1), DimOf(inputs[2], 1))
    /\ status = InvalidArgument(PaddingRangeMsg)
    /\ sets = <<>>

-----------------------------------------------------------------------------
(* C9 *)

\* the case of C9: rank-4 input and templates, templates' spatial dims known,
\* at least 1 (a block) and equal to the input's, padding [0,0], two strides
\* (int32 values), each at least the block size
FullExtentCase ==
    /\ Forward /\ Ran /\ BothRank4
    /\ \A k \in {2, 3} :
          /\ DimOf(inputs[2], k) >= 1
          /\ DimOf(inputs[1], k) = DimOf(inputs[2], k)
    /\ attrs.padding = <<0, 0>> /\ wide.padding = {}
    /\ Len(attrs.strides) = 2 /\ wide.strides = {}
    /\ \A k \in {2, 3} : attrs.strides[k - 1] >= DimOf(inputs[2], k)

SpatialOneByOne ==
    /\ Done
    /\ status = OK
    /\ OutputIsSet(0)
    /\ Output(0).dims[3] = 1
    /\ Output(0).dims[4] = 1

\* C9 as stated: in the full-extent case SimilarityShape succeeds with output
\* spatial dims (1,1).
C9_AsStated == FullExtentCase => SpatialOneByOne

\* C9, amended: in the full-extent case, when moreover the in-channel
\* dimensions (dim 1) of input and templates are equal or not both known and
\* every value of blocks is within int32, SimilarityShape succeeds with
\* output spatial dims (1,1).
C9_FullExtent ==
    (/\ FullExtentCase
     /\ ~Mismatch(DimOf(inputs[1], 1), DimOf(inputs[2], 1))
     /\ wide.blocks = {}) => SpatialOneByOne

\* a run on a 2x2 image with a 2x2 window and stride 2
C9_Witness ==
    /\ FullExtentCase
    /\ DimOf(inputs[1], 2) = 2 /\ DimOf(inputs[1], 3) = 2
    /\ attrs.strides = <<2, 2>>
    /\ SpatialOneByOne

-----------------------------------------------------------------------------
(* C10 *)

\* the blocks lists a node is compared under, every value within int32
BlocksValues == {<<>>, <<3>>, DefaultBlocks, <<1, 2>>, <<2, 2>>, <<3, 3, 3>>}

\* the blocks attributes a node is compared under: the lists of BlocksValues,
\* and lists with a value outside int32
BlocksVariants ==
    {[list |-> b, wide |-> {}] : b \in BlocksValues}
        \cup {[list |-> DefaultBlocks, wide |-> {0}],
              [list |-> DefaultBlocks, wide |-> {0, 1}],
              [list |-> <<3>>, wide |-> {0}]}

\* the blocks attribute of the node
OwnBlocks == [list |-> attrs.blocks, wide |-> wide.blocks]

\* what the runs of SimilarityShape on the node with its blocks replaced by v
\* return and set
OutcomesWithBlocks(v) ==
    LET c == [inputs |-> inputs,
              attrs |-> [attrs EXCEPT !.blocks = v.list],
              wide |-> [wide EXCEPT !.blocks = v.wide]]
    IN {Outcome(r) : r \in SimilarityShapeRuns(c)}

\* C10 as stated: what a run of SimilarityShape returns and sets is what it
\* returns and sets on the same node with any other value of blocks.
C10_AsStated ==
    (Forward /\ Ran) =>
        LET own == OutcomesWithBlocks(OwnBlocks) IN
        /\ Observed \in own
        /\ \A v \in BlocksVariants : OutcomesWithBlocks(v) = own

\* C10, amended: on a node whose blocks values are all within int32, what a
\* run of SimilarityShape returns and sets is what it returns and sets under
\* any other such blocks list, of any length and whether or not it equals the
\* templates' spatial dims; on a node with a blocks value outside int32 whose
\* rank checks and strides lookup pass, the run returns the error of the
\* blocks lookup and sets nothing.
C10_BlocksIgnored ==
    (Forward /\ Ran) =>
        LET own == OutcomesWithBlocks(OwnBlocks) IN
        /\ Observed \in own
        /\ wide.blocks = {} =>
              \A v \in BlocksVariants :
                  v.wide = {} => OutcomesWithBlocks(v) = own
        /\ (/\ wide.blocks # {}
            /\ ~KnownRankNot4(inputs[1]) /\ ~KnownRankNot4(inputs[2])
            /\ wide.strides = {}) =>
              /\ Done
              /\ status = InvalidArgument(BlocksRangeMsg)
              /\ sets = <<>>

\* a successful run on a node whose blocks list has one value, not the
\* templates' spatial size
C10_Witness ==
    /\ Forward /\ Done /\ status = OK
    /\ attrs.blocks = <<3>> /\ wide.blocks = {}
    /\ DimOf(inputs[2], 2) = 1

====
